---- MODULE Spec2Model ----
(***************************************************************************)
(* Model of the AI gateway engine of gateway.go: the response cache with   *)
(* lazy expiry and oldest-first eviction, the sliding-window rate limiter, *)
(* the provider dispatcher, the metrics counters and the request handler   *)
(* HandleLLMRequest that orchestrates them.                                *)
(*                                                                         *)
(* Time is the reading of time.Now(), a natural number of clock units; the *)
(* clock is monotone (Go compares the monotonic reading) and several       *)
(* operations may read the same value.                                     *)
(***************************************************************************)
EXTENDS Integers, Sequences, FiniteSets, TLC

VARIABLES
    now,        \* the clock: what time.Now() returns
    maxSize,    \* Cache.maxSize
    data,       \* Cache.data: map from key to CacheEntry
    last,       \* the last component-level call and what it returned
    limit,      \* RateLimiter.limit
    window,     \* RateLimiter.window
    requests,   \* RateLimiter.requests: map from key to []time.Time
    admitted,   \* history: per key, the clock readings of every admitted call
    blocked,    \* history: per key, the earliest in-window timestamp at the last rejection
    rlMu,       \* RateLimiter.mu: the caller holding it, or NoOne
    cMu,        \* Cache.mu: the handlers inside Lock..Unlock and inside RLock..RUnlock
    mMu,        \* Metrics.mu: likewise
    apc,        \* concurrent Allow callers: position in Allow
    aloc,       \* concurrent Allow callers: locals (now, validRequests, result)
    metrics,    \* Metrics: totalRequests, cacheHits, cacheMisses, errors
    pc,         \* request handlers: position in HandleLLMRequest
    hreq,       \* request handlers: client address, body and context of the request in hand
    hloc,       \* request handlers: locals (cacheKey, cached, startTime, response)
    did,        \* history: per handler, what the request in hand has done so far
    stored,     \* history: per cache key, the clock reading of the last Set by a handler
    received    \* number of requests accepted by the listener so far

vars == <<now, maxSize, data, last, limit, window, requests, admitted, blocked,
          rlMu, cMu, mMu, apc, aloc, metrics, pc, hreq, hloc, did, stored, received>>

cacheVars   == <<maxSize, data>>
limiterVars == <<limit, window, requests, admitted, blocked>>
allowVars   == <<rlMu, apc, aloc, cMu, mMu>>
gatewayVars == <<metrics, pc, hreq, hloc, did, stored, received>>

-----------------------------------------------------------------------------
(* Bounds of the model *)

MaxTime == 3        \* the clock runs from 0 to MaxTime
MaxCap == 2         \* capacities tried for a stand-alone cache: 1..MaxCap
MaxTTL == 1         \* time-to-live values tried for a stand-alone cache: 0..MaxTTL
MaxLimit == 2       \* limits tried for a stand-alone limiter: 0..MaxLimit
MaxWindow == 2      \* windows tried for a stand-alone limiter: 1..MaxWindow
NumCallers == 2     \* goroutines calling Allow concurrently: 1..NumCallers
NumHandlers == 2    \* requests the gateway handles at a time: 1..NumHandlers
MaxRequests == 3    \* requests the gateway receives in a run
MaxCount == 3       \* the stand-alone metrics count up to MaxCount each

\* NewGateway's configuration in units of the model: NewCache(1000),
\* NewRateLimiter(100, time.Minute), and the TTL 1*time.Hour of the handler.
GatewayCacheSize == 1
GatewayLimit == 2
GatewayWindow == 2
CacheTTL == 2

Min(a, b) == IF a < b THEN a ELSE b

-----------------------------------------------------------------------------
(* Types of gateway.go *)

OpenAI == "openai"
Anthropic == "anthropic"
Google == "google"
DeepSeek == "deepseek"

\* LLMResponse{}: the zero value
ZeroResponse ==
    [Provider |-> "", Model |-> "", Response |-> "", TokensUsed |-> 0,
     ResponseTime |-> 0, Cached |-> FALSE]

\* Client keys (remote addresses) tried on the limiter.
ClientKeys == {"A", "B"}

\* History: how many calls of each key were admitted at each clock reading.
NoneAdmitted == [k \in ClientKeys |-> [u \in 0 .. MaxTime |-> 0]]

\* sync.Mutex: the zero value is unlocked; otherwise the caller (1, 2, ...)
\* that holds it.
NoOne == 0

\* sync.RWMutex: the zero value is unlocked. writers are the goroutines that
\* have returned from Lock and not yet called Unlock, readers those that have
\* returned from RLock and not yet called RUnlock.
Unlocked == [writers |-> {}, readers |-> {}]

\* No call yet
NoCall == [op |-> "none"]

-----------------------------------------------------------------------------
(* Cache *)

\* Keys and responses tried on a stand-alone cache; "" is the zero string.
CacheKeys == {"", "X", "Y"}

TestResponses ==
    {[Provider |-> OpenAI, Model |-> "m", Response |-> r, TokensUsed |-> 0,
      ResponseTime |-> 0, Cached |-> FALSE] : r \in {"r1", "r2"}}

MapRemove(d, k) == [j \in DOMAIN d \ {k} |-> d[j]]

MapPut(d, k, v) == [j \in DOMAIN d \cup {k} |-> IF j = k THEN v ELSE d[j]]

\* Mutant of CacheGet: an entry whose age equals its TTL counts as expired.
CacheGetExpiresEarly(d, key, t) ==
    IF key \notin DOMAIN d
    THEN [response |-> ZeroResponse, found |-> FALSE]
    ELSE IF t - d[key].Timestamp >= d[key].TTL
         THEN [response |-> ZeroResponse, found |-> FALSE]
         ELSE [response |-> d[key].Response, found |-> TRUE]

\* Cache.Get: absent, or present and older than its TTL, is not found.
CacheGet(d, key, t) ==
    IF key \notin DOMAIN d
    THEN [response |-> ZeroResponse, found |-> FALSE]
    ELSE IF t - d[key].Timestamp > d[key].TTL
         THEN [response |-> ZeroResponse, found |-> FALSE]
         ELSE [response |-> d[key].Response, found |-> TRUE]

\* Mutant of OldestKeys: the scan keeps whichever entry it meets, without
\* comparing timestamps.
OldestKeysAnyEntry(d, t) == IF DOMAIN d = {} THEN {""} ELSE DOMAIN d

\* The eviction scan of Cache.Set: oldestKey starts as "" and oldestTime as
\* time.Now(); an entry replaces them only when strictly older. The map is
\* ranged over in an unspecified order, so among entries that share the
\* least timestamp any one may be the result.
OldestKeys(d, t) ==
    LET older == {k \in DOMAIN d : d[k].Timestamp < t}
    IN  IF older = {}
        THEN {""}
        ELSE {k \in older : \A j \in older : d[k].Timestamp <= d[j].Timestamp}

\* Whether Cache.Set runs its eviction scan.
CacheFull(d, cap) == Cardinality(DOMAIN d) >= cap

\* Mutant of CacheSet: a key that is already present is overwritten without
\* the eviction scan.
CacheSetOverwritesInPlace(d, cap, key, response, ttl, t1, t2, oldestKey) ==
    LET kept == IF CacheFull(d, cap) /\ key \notin DOMAIN d
                THEN MapRemove(d, oldestKey) ELSE d
    IN  MapPut(kept, key, [Response |-> response, Timestamp |-> t2, TTL |-> ttl])

\* Cache.Set with the scan's result oldestKey (when the scan runs), the first
\* clock reading t1 and the second one t2, stamped on the entry.
CacheSet(d, cap, key, response, ttl, t1, t2, oldestKey) ==
    LET kept == IF CacheFull(d, cap) THEN MapRemove(d, oldestKey) ELSE d
    IN  MapPut(kept, key, [Response |-> response, Timestamp |-> t2, TTL |-> ttl])

\* The clock readings a call that starts at t may see later on.
Later(t) == t .. Min(t + 1, MaxTime)

-----------------------------------------------------------------------------
(* A stand-alone cache: NewCache(maxSize), then Set and Get at any time *)

Tick ==
    /\ now < MaxTime
    /\ now' = now + 1
    /\ UNCHANGED <<cacheVars, last, limiterVars, allowVars, gatewayVars>>

DoSet(key, response, ttl) ==
    \E t2 \in Later(now) : \E oldestKey \in OldestKeys(data, now) :
        /\ data' = CacheSet(data, maxSize, key, response, ttl, now, t2, oldestKey)
        /\ now' = t2
        /\ last' = [op |-> "Set", key |-> key, evicted |-> DOMAIN data \ DOMAIN data']
        /\ UNCHANGED <<maxSize, limiterVars, allowVars, gatewayVars>>

DoGet(key) ==
    /\ last' = [op |-> "Get", key |-> key] @@ CacheGet(data, key, now)
    /\ UNCHANGED <<now, cacheVars, limiterVars, allowVars, gatewayVars>>

CacheSetStep == \E key \in CacheKeys, response \in TestResponses, ttl \in 0 .. MaxTTL :
                    DoSet(key, response, ttl)

CacheGetStep == \E key \in CacheKeys : DoGet(key)

\* The components a specification does not use stay as constructed.
CacheIdle == maxSize = 0 /\ data = <<>>

LimiterIdle ==
    /\ limit = 0 /\ window = 0 /\ requests = <<>>
    /\ admitted = NoneAdmitted
    /\ blocked = [k \in ClientKeys |-> -1]

AllowIdle ==
    /\ rlMu = NoOne /\ apc = <<>> /\ aloc = <<>>
    /\ cMu = Unlocked /\ mMu = Unlocked

GatewayIdle ==
    /\ metrics = [totalRequests |-> 0, cacheHits |-> 0, cacheMisses |-> 0, errors |-> 0]
    /\ pc = <<>> /\ hreq = <<>> /\ hloc = <<>> /\ did = <<>> /\ stored = <<>>
    /\ received = 0

InitCache ==
    /\ now = 0 /\ last = NoCall
    /\ maxSize \in 1 .. MaxCap
    /\ data = <<>>
    /\ LimiterIdle /\ AllowIdle /\ GatewayIdle

NextCache == Tick \/ CacheSetStep \/ CacheGetStep

SpecCache == InitCache /\ [][NextCache]_vars

-----------------------------------------------------------------------------
(* RateLimiter *)

\* rl.requests[key]: a key that is not in the map yields the nil slice.
RequestsOf(m, key) == IF key \in DOMAIN m THEN m[key] ELSE <<>>

\* Mutant of ValidRequests: the loop keeps every timestamp.
ValidRequestsKeepsAll(reqs, windowStart) == reqs

\* The loop of Allow: the timestamps strictly after windowStart, in order.
ValidRequests(reqs, windowStart) == SelectSeq(reqs, LAMBDA reqTime : reqTime > windowStart)

\* Mutant of OverLimit: the check is off by one.
OverLimitOffByOne(validRequests, lim) == Len(validRequests) > lim

\* The limit check of Allow.
OverLimit(validRequests, lim) == Len(validRequests) >= lim

\* Mutant of RequestsAfterAllow: an admitted call stores its own timestamp
\* in place of the retained ones.
RequestsAfterAllowKeepsOnlyNow(m, key, validRequests, t, lim) ==
    IF OverLimit(validRequests, lim)
    THEN m
    ELSE MapPut(m, key, <<t>>)

\* Mutant of RequestsAfterAllow: an admitted call puts its timestamp in
\* front of the retained ones.
RequestsAfterAllowPrepends(m, key, validRequests, t, lim) ==
    IF OverLimit(validRequests, lim)
    THEN m
    ELSE MapPut(m, key, <<t>> \o validRequests)

\* Mutant of RequestsAfterAllow: a rejected call records its timestamp too.
RequestsAfterAllowRecordsAll(m, key, validRequests, t, lim) ==
    MapPut(m, key, Append(validRequests, t))

\* The map Allow leaves behind: untouched when it rejects, else the key's
\* slice is replaced by the retained timestamps followed by now.
RequestsAfterAllow(m, key, validRequests, t, lim) ==
    IF OverLimit(validRequests, lim)
    THEN m
    ELSE MapPut(m, key, Append(validRequests, t))

\* RateLimiter.Allow(key) at clock reading t, run under rl.mu as one step.
Allow(m, lim, win, key, t) ==
    LET validRequests == ValidRequests(RequestsOf(m, key), t - win)
    IN  [ok |-> ~OverLimit(validRequests, lim),
         requests |-> RequestsAfterAllow(m, key, validRequests, t, lim)]

\* How many of the admitted calls lie in lo..hi, and the earliest of them.
RECURSIVE SumOver(_, _)
SumOver(f, S) == IF S = {} THEN 0
                 ELSE LET u == CHOOSE u \in S : TRUE IN f[u] + SumOver(f, S \ {u})

AdmittedIn(adm, lo, hi) == SumOver(adm, {u \in DOMAIN adm : lo <= u /\ u <= hi})

EarliestIn(adm, lo, hi) ==
    LET S == {u \in DOMAIN adm : lo <= u /\ u <= hi /\ adm[u] > 0}
    IN  IF S = {} THEN -1 ELSE CHOOSE u \in S : \A v \in S : u <= v

LimiterHistory(key, ok) ==
    /\ admitted' = IF ok THEN [admitted EXCEPT ![key][now] = @ + 1] ELSE admitted
    /\ blocked' = [blocked EXCEPT ![key] =
                      IF ok THEN -1
                      ELSE EarliestIn(admitted[key], now - window + 1, now)]

-----------------------------------------------------------------------------
(* A stand-alone limiter: NewRateLimiter(limit, window), then Allow at any time *)

DoAllow(key) ==
    LET r == Allow(requests, limit, window, key, now)
    IN  /\ requests' = r.requests
        /\ LimiterHistory(key, r.ok)
        /\ last' = [op |-> "Allow", key |-> key, ok |-> r.ok,
                    blockedBefore |-> blocked[key]]
        /\ UNCHANGED <<now, limit, window, cacheVars, allowVars, gatewayVars>>

AllowStep == \E key \in ClientKeys : DoAllow(key)

InitLimiter ==
    /\ now = 0 /\ last = NoCall
    /\ limit \in 0 .. MaxLimit
    /\ window \in 1 .. MaxWindow
    /\ requests = <<>>
    /\ admitted = NoneAdmitted
    /\ blocked = [k \in ClientKeys |-> -1]
    /\ CacheIdle /\ AllowIdle /\ GatewayIdle

NextLimiter == Tick \/ AllowStep

SpecLimiter == InitLimiter /\ [][NextLimiter]_vars

-----------------------------------------------------------------------------
(* Concurrent callers of Allow on one limiter. Each caller is a goroutine  *)
(* that runs Allow statement by statement; rl.mu is held from the Lock at  *)
(* entry to the deferred Unlock. The limiter starts with limit - 1         *)
(* timestamps of clock reading 0 stored for every key, as limit - 1        *)
(* admitted calls leave it: one slot remains while those are in the window.*)

Callers == 1 .. NumCallers

\* Mutant of CanLock: Allow does not wait for the mutex.
CanLockUnguarded(mu) == TRUE

\* rl.mu.Lock() returns only when the mutex is free.
CanLock(mu) == mu = NoOne

InitialRequests(lim) ==
    IF lim = 1 THEN <<>> ELSE [k \in ClientKeys |-> [i \in 1 .. lim - 1 |-> 0]]

ACall(c) ==
    /\ apc[c] = "start"
    /\ \E key \in ClientKeys :
          aloc' = [aloc EXCEPT ![c] = [key |-> key, now |-> 0, validRequests |-> <<>>,
                                       ok |-> FALSE]]
    /\ apc' = [apc EXCEPT ![c] = "lock"]
    /\ UNCHANGED <<now, last, cacheVars, limiterVars, rlMu, gatewayVars, cMu, mMu>>

\* rl.mu.Lock()
ALock(c) ==
    /\ apc[c] = "lock"
    /\ CanLock(rlMu)
    /\ rlMu' = c
    /\ apc' = [apc EXCEPT ![c] = "clean"]
    /\ UNCHANGED <<now, last, cacheVars, limiterVars, aloc, gatewayVars, cMu, mMu>>

\* now := time.Now(); the loop that builds validRequests from rl.requests[key]
AClean(c) ==
    /\ apc[c] = "clean"
    /\ aloc' = [aloc EXCEPT ![c].now = now,
                             ![c].validRequests =
                                ValidRequests(RequestsOf(requests, aloc[c].key), now - window)]
    /\ apc' = [apc EXCEPT ![c] = "check"]
    /\ UNCHANGED <<now, last, cacheVars, limiterVars, rlMu, gatewayVars, cMu, mMu>>

\* the limit check; on success the append and the store into rl.requests
ACheck(c) ==
    /\ apc[c] = "check"
    /\ requests' = RequestsAfterAllow(requests, aloc[c].key, aloc[c].validRequests,
                                       aloc[c].now, limit)
    /\ aloc' = [aloc EXCEPT ![c].ok = ~OverLimit(aloc[c].validRequests, limit)]
    /\ apc' = [apc EXCEPT ![c] = "unlock"]
    /\ UNCHANGED <<now, last, cacheVars, limit, window, admitted, blocked, rlMu,
                   gatewayVars, cMu, mMu>>

\* defer rl.mu.Unlock()
AUnlock(c) ==
    /\ apc[c] = "unlock"
    /\ rlMu' = NoOne
    /\ apc' = [apc EXCEPT ![c] = "done"]
    /\ UNCHANGED <<now, last, cacheVars, limiterVars, aloc, gatewayVars, cMu, mMu>>

InitAllow ==
    /\ now = 0 /\ last = NoCall
    /\ limit \in 1 .. MaxLimit
    /\ window \in 1 .. MaxWindow
    /\ requests = InitialRequests(limit)
    /\ admitted = NoneAdmitted
    /\ blocked = [k \in ClientKeys |-> -1]
    /\ rlMu = NoOne /\ cMu = Unlocked /\ mMu = Unlocked
    /\ apc = [c \in Callers |-> "start"]
    /\ aloc = [c \in Callers |-> [key |-> "A", now |-> 0, validRequests |-> <<>>,
                                   ok |-> FALSE]]
    /\ CacheIdle /\ GatewayIdle

NextAllow ==
    \/ Tick
    \/ \E c \in Callers : ACall(c) \/ ALock(c) \/ AClean(c) \/ ACheck(c) \/ AUnlock(c)

SpecAllow == InitAllow /\ [][NextAllow]_vars

-----------------------------------------------------------------------------
(* Provider dispatch and metrics *)

\* Request bodies tried: one that does not decode, and LLMRequest values.
ReqProviders == {OpenAI, DeepSeek, "bogus"}
ReqModels == {"m"}
ReqPrompts == {"tell me more"}

\* Remote addresses the requests come from.
GatewayClients == {"A"}

Malformed == [ok |-> FALSE]

LLMRequests ==
    {[ok |-> TRUE, Prompt |-> p, Model |-> m, Provider |-> v] :
        p \in ReqPrompts, m \in ReqModels, v \in ReqProviders}

Bodies == {Malformed} \cup LLMRequests

\* fmt.Sprintf("%s:%s:%s", req.Provider, req.Model, req.Prompt)
CacheKey(r) == r.Provider \o ":" \o r.Model \o ":" \o r.Prompt

GatewayKeys == {CacheKey(r) : r \in LLMRequests}

\* What a provider function returns; err "" is the nil error, and called
\* lists the provider functions that ran.
Answer(provider, name, r) ==
    [response |-> [Provider |-> provider, Model |-> r.Model,
                   Response |-> name \o " response to: " \o r.Prompt,
                   TokensUsed |-> Len(r.Prompt) \div 4,
                   ResponseTime |-> 0, Cached |-> FALSE],
     err |-> "",
     called |-> <<"call" \o name>>]

callOpenAI(r) == Answer(OpenAI, "OpenAI", r)
callAnthropic(r) == Answer(Anthropic, "Anthropic", r)
callGoogle(r) == Answer(Google, "Google", r)
callDeepSeek(r) == Answer(DeepSeek, "DeepSeek", r)

\* Mutant of processLLMRequest: the default branch fills in the response
\* from the request before it fails.
processLLMRequestEchoesRequest(r) ==
    CASE r.Provider = OpenAI -> callOpenAI(r)
      [] r.Provider = Anthropic -> callAnthropic(r)
      [] r.Provider = Google -> callGoogle(r)
      [] r.Provider = DeepSeek -> callDeepSeek(r)
      [] OTHER -> [response |-> [ZeroResponse EXCEPT !.Provider = r.Provider,
                                                     !.Model = r.Model],
                   err |-> "unsupported provider: " \o r.Provider,
                   called |-> <<>>]

processLLMRequest(r) ==
    CASE r.Provider = OpenAI -> callOpenAI(r)
      [] r.Provider = Anthropic -> callAnthropic(r)
      [] r.Provider = Google -> callGoogle(r)
      [] r.Provider = DeepSeek -> callDeepSeek(r)
      [] OTHER -> [response |-> ZeroResponse,
                   err |-> "unsupported provider: " \o r.Provider,
                   called |-> <<>>]

-----------------------------------------------------------------------------
(* The dispatcher on its own: processLLMRequest applied to any request *)

\* Provider identifiers tried: the four supported ones, the zero string (a
\* body without the field), and near misses.
DispatchProviders ==
    {OpenAI, Anthropic, Google, DeepSeek, "", "bogus", "OpenAI", "openai ", "gpt"}
DispatchModels == {"", "m"}
DispatchPrompts == {"", "hi", "tell me more"}

DispatchRequests ==
    {[ok |-> TRUE, Prompt |-> p, Model |-> m, Provider |-> v] :
        p \in DispatchPrompts, m \in DispatchModels, v \in DispatchProviders}

\* A decoded request is at hand.
NewRequest ==
    /\ last.op = "processLLMRequest"
    /\ \E r \in DispatchRequests : last' = [op |-> "request", req |-> r]
    /\ UNCHANGED <<now, cacheVars, limiterVars, allowVars, gatewayVars>>

DoDispatch ==
    /\ last.op = "request"
    /\ last' = [op |-> "processLLMRequest", req |-> last.req] @@ processLLMRequest(last.req)
    /\ UNCHANGED <<now, cacheVars, limiterVars, allowVars, gatewayVars>>

InitDispatch ==
    /\ now = 0
    /\ \E r \in DispatchRequests : last = [op |-> "request", req |-> r]
    /\ CacheIdle /\ LimiterIdle /\ AllowIdle /\ GatewayIdle

NextDispatch == NewRequest \/ DoDispatch

SpecDispatch == InitDispatch /\ [][NextDispatch]_vars

RecordRequest(m) == [m EXCEPT !.totalRequests = @ + 1]

\* Mutant of RecordCacheHit: a hit is counted as a request as well.
RecordCacheHitAndRequest(m) == [m EXCEPT !.cacheHits = @ + 1, !.totalRequests = @ + 1]

RecordCacheHit(m) == [m EXCEPT !.cacheHits = @ + 1]

\* Mutant of RecordCacheMiss: the miss is counted as a hit.
RecordCacheMissCountsHit(m) == [m EXCEPT !.cacheHits = @ + 1]

RecordCacheMiss(m) == [m EXCEPT !.cacheMisses = @ + 1]

\* Mutant of RecordError: the error is not counted.
RecordErrorDropped(m) == m

RecordError(m) == [m EXCEPT !.errors = @ + 1]

-----------------------------------------------------------------------------
(* The metrics on their own: the Record methods called in any order, and   *)
(* HandleMetrics reading the counters. A float64 is modelled by the exact  *)
(* rational num/den: the counters are far below 2^53, so their conversion   *)
(* is exact, and the rounding error of the quotient is far below the two   *)
(* decimals that are reported.                                             *)

\* Mutant of CacheHitRate: the fraction is not scaled to a percentage.
CacheHitRateFraction(cacheHits, cacheMisses) ==
    LET total == cacheHits + cacheMisses
    IN  IF total > 0 THEN [num |-> cacheHits, den |-> total] ELSE [num |-> 0, den |-> 1]

\* cacheHitRate := 0.0; total := hits + misses;
\* if total > 0 { cacheHitRate = float64(hits) / float64(total) * 100 }
CacheHitRate(cacheHits, cacheMisses) ==
    LET total == cacheHits + cacheMisses
    IN  IF total > 0
        THEN [num |-> cacheHits * 100, den |-> total]
        ELSE [num |-> 0, den |-> 1]

Digit(d) == CASE d = 0 -> "0" [] d = 1 -> "1" [] d = 2 -> "2" [] d = 3 -> "3"
              [] d = 4 -> "4" [] d = 5 -> "5" [] d = 6 -> "6" [] d = 7 -> "7"
              [] d = 8 -> "8" [] d = 9 -> "9"

\* %d of a natural number
RECURSIVE Decimal(_)
Decimal(n) == IF n < 10 THEN Digit(n) ELSE Decimal(n \div 10) \o Digit(n % 10)

\* The hundredths nearest to the non-negative rational x.
Hundredths(x) == (2 * 100 * x.num + x.den) \div (2 * x.den)

\* fmt.Sprintf("%.2f%%", x)
FormatPercent(x) ==
    LET n == Hundredths(x)
    IN  Decimal(n \div 100) \o "." \o Digit((n \div 10) % 10) \o Digit(n % 10) \o "%"

\* The map HandleMetrics encodes.
Snapshot(m) ==
    [total_requests |-> m.totalRequests,
     cache_hits |-> m.cacheHits,
     cache_misses |-> m.cacheMisses,
     cacheHitRate |-> CacheHitRate(m.cacheHits, m.cacheMisses),
     cache_hit_rate |-> FormatPercent(CacheHitRate(m.cacheHits, m.cacheMisses)),
     errors |-> m.errors]

MRecordRequest ==
    /\ metrics.totalRequests < MaxCount
    /\ metrics' = RecordRequest(metrics)
    /\ UNCHANGED <<now, last, cacheVars, limiterVars, allowVars, pc, hreq, hloc, did,
                   stored, received>>

MRecordCacheHit ==
    /\ metrics.cacheHits < MaxCount
    /\ metrics' = RecordCacheHit(metrics)
    /\ UNCHANGED <<now, last, cacheVars, limiterVars, allowVars, pc, hreq, hloc, did,
                   stored, received>>

MRecordCacheMiss ==
    /\ metrics.cacheMisses < MaxCount
    /\ metrics' = RecordCacheMiss(metrics)
    /\ UNCHANGED <<now, last, cacheVars, limiterVars, allowVars, pc, hreq, hloc, did,
                   stored, received>>

MRecordError ==
    /\ metrics.errors < MaxCount
    /\ metrics' = RecordError(metrics)
    /\ UNCHANGED <<now, last, cacheVars, limiterVars, allowVars, pc, hreq, hloc, did,
                   stored, received>>

HandleMetrics ==
    /\ last' = [op |-> "Metrics"] @@ Snapshot(metrics)
    /\ UNCHANGED <<now, cacheVars, limiterVars, allowVars, gatewayVars>>

InitMetrics ==
    /\ now = 0 /\ last = NoCall
    /\ CacheIdle /\ LimiterIdle /\ AllowIdle /\ GatewayIdle

NextMetrics ==
    MRecordRequest \/ MRecordCacheHit \/ MRecordCacheMiss \/ MRecordError \/ HandleMetrics

SpecMetrics == InitMetrics /\ [][NextMetrics]_vars

-----------------------------------------------------------------------------
(* The gateway: NewGateway, then HandleLLMRequest run by concurrent        *)
(* handlers. A handler takes one step per call into a shared component     *)
(* (each call is atomic under that component's lock); the statements       *)
(* between two calls touch only the handler's own variables and belong to  *)
(* the step before or after them.                                          *)

Handlers == 1 .. NumHandlers

\* cancelled: whether r.Context() is done (the client went away, or the
\* request timed out).
NoRequest == [client |-> "", body |-> Malformed, cancelled |-> FALSE]

NoLocals == [cacheKey |-> "", cached |-> ZeroResponse, startTime |-> 0,
             response |-> ZeroResponse, err |-> ""]

\* History of the request in hand: the response written (status 0: none yet),
\* and how often it has changed each counter, called Set, and dispatched.
NothingDone == [outcome |-> "", status |-> 0, sent |-> ZeroResponse,
                hits |-> 0, misses |-> 0, errors |-> 0, totals |-> 0,
                sets |-> 0, dispatches |-> 0]

Tally(d, m1, m2, sets, dispatches) ==
    [d EXCEPT !.hits = @ + m2.cacheHits - m1.cacheHits,
              !.misses = @ + m2.cacheMisses - m1.cacheMisses,
              !.errors = @ + m2.errors - m1.errors,
              !.totals = @ + m2.totalRequests - m1.totalRequests,
              !.sets = @ + sets,
              !.dispatches = @ + dispatches]

Responded(d, outcome, status, sent) ==
    [d EXCEPT !.outcome = outcome, !.status = status, !.sent = sent]

\* The listener hands a request to a handler that is free: one that has not
\* run yet, or whose last request has returned.
ReceiveFrom(h, bodies) ==
    /\ pc[h] \in {"idle", "done"}
    /\ received < MaxRequests
    /\ \E client \in GatewayClients, body \in bodies :
          hreq' = [hreq EXCEPT ![h] = [client |-> client, body |-> body,
                                       cancelled |-> FALSE]]
    /\ hloc' = [hloc EXCEPT ![h] = NoLocals]
    /\ did' = [did EXCEPT ![h] = NothingDone]
    /\ pc' = [pc EXCEPT ![h] = "allow"]
    /\ received' = received + 1
    /\ UNCHANGED <<now, last, cacheVars, limiterVars, metrics, stored>>

Receive(h) == ReceiveFrom(h, Bodies)

\* if !g.rateLimiter.Allow(clientIP) { http.Error(429) ...
HAllow(h) ==
    LET r == Allow(requests, limit, window, hreq[h].client, now)
    IN  /\ pc[h] = "allow"
        /\ requests' = r.requests
        /\ pc' = [pc EXCEPT ![h] = IF r.ok THEN "lookup" ELSE "error"]
        /\ did' = [did EXCEPT ![h] =
                      IF r.ok THEN @ ELSE Responded(@, "rate_limited", 429, ZeroResponse)]
        /\ UNCHANGED <<now, last, cacheVars, limit, window, admitted, blocked,
                       metrics, hreq, hloc, stored, received>>

\* Decode the body (on failure http.Error(400)); build the cache key;
\* g.cache.Get(cacheKey)
HLookup(h) ==
    /\ pc[h] = "lookup"
    /\ IF ~hreq[h].body.ok
       THEN /\ pc' = [pc EXCEPT ![h] = "error"]
            /\ did' = [did EXCEPT ![h] = Responded(@, "invalid_request", 400, ZeroResponse)]
            /\ hloc' = hloc
       ELSE LET key == CacheKey(hreq[h].body)
                g == CacheGet(data, key, now)
            IN  /\ pc' = [pc EXCEPT ![h] = IF g.found THEN "hit" ELSE "miss"]
                /\ hloc' = [hloc EXCEPT ![h].cacheKey = key, ![h].cached = g.response]
                /\ did' = did
    /\ UNCHANGED <<now, last, cacheVars, limiterVars, metrics, hreq, stored,
                   received>>

\* Mutant of ServeCached: the copy is sent as it was stored.
ServeCachedUnflagged(cached) == cached

\* cached.Cached = true, on the handler's copy of the stored response
ServeCached(cached) == [cached EXCEPT !.Cached = TRUE]

\* Mutant of HRecordHit: cached aliases the stored entry, so that setting the
\* flag writes through to the store.
HRecordHitMarksEntry(h) ==
    LET m2 == RecordCacheHit(metrics)
        sent == ServeCached(hloc[h].cached)
        key == hloc[h].cacheKey
    IN  /\ pc[h] = "hit"
        /\ metrics' = m2
        /\ data' = IF key \in DOMAIN data
                   THEN [data EXCEPT ![key].Response.Cached = TRUE]
                   ELSE data
        /\ did' = [did EXCEPT ![h] = Responded(Tally(@, metrics, m2, 0, 0), "hit", 200, sent)]
        /\ pc' = [pc EXCEPT ![h] = "done"]
        /\ UNCHANGED <<now, last, maxSize, limiterVars, hreq, hloc, stored,
                       received>>

\* g.metrics.RecordCacheHit(); cached.Cached = true; encode cached; return
HRecordHit(h) ==
    LET m2 == RecordCacheHit(metrics)
        sent == ServeCached(hloc[h].cached)
    IN  /\ pc[h] = "hit"
        /\ metrics' = m2
        /\ did' = [did EXCEPT ![h] = Responded(Tally(@, metrics, m2, 0, 0), "hit", 200, sent)]
        /\ pc' = [pc EXCEPT ![h] = "done"]
        /\ UNCHANGED <<now, last, cacheVars, limiterVars, hreq, hloc, stored,
                       received>>

\* g.metrics.RecordCacheMiss(); startTime := time.Now()
HRecordMiss(h) ==
    LET m2 == RecordCacheMiss(metrics)
    IN  /\ pc[h] = "miss"
        /\ metrics' = m2
        /\ did' = [did EXCEPT ![h] = Tally(@, metrics, m2, 0, 0)]
        /\ hloc' = [hloc EXCEPT ![h].startTime = now]
        /\ pc' = [pc EXCEPT ![h] = "dispatch"]
        /\ UNCHANGED <<now, last, cacheVars, limiterVars, hreq, stored,
                       received>>

\* Mutant of AfterDispatch: the error branch does not return.
AfterDispatchFallsThrough(err) == "store"

\* Where the handler goes when processLLMRequest has returned err.
AfterDispatch(err) == IF err # "" THEN "error" ELSE "store"

\* processLLMRequest returns; responseTime := time.Since(startTime); on an
\* error http.Error(500), else response.ResponseTime is set.
HDispatch(h) ==
    LET r == processLLMRequest(hreq[h].body)
        responseTime == now - hloc[h].startTime
    IN  /\ pc[h] = "dispatch"
        /\ hloc' = [hloc EXCEPT ![h].err = r.err,
                                 ![h].response =
                                    IF r.err # "" THEN r.response
                                    ELSE [r.response EXCEPT !.ResponseTime = responseTime]]
        /\ did' = [did EXCEPT ![h] =
                      IF r.err # ""
                      THEN Responded(Tally(@, metrics, metrics, 0, 1), "provider_error", 500,
                                     ZeroResponse)
                      ELSE Tally(@, metrics, metrics, 0, 1)]
        /\ pc' = [pc EXCEPT ![h] = AfterDispatch(r.err)]
        /\ UNCHANGED <<now, last, cacheVars, limiterVars, metrics, hreq, stored,
                       received>>

\* Mutant of HandlerSet: the entry is stored with no time to live.
HandlerSetNoTTL(d, cap, loc, t1, t2, oldestKey) ==
    CacheSet(d, cap, loc.cacheKey, loc.response, 0, t1, t2, oldestKey)

\* g.cache.Set(cacheKey, response, 1*time.Hour)
HandlerSet(d, cap, loc, t1, t2, oldestKey) ==
    CacheSet(d, cap, loc.cacheKey, loc.response, CacheTTL, t1, t2, oldestKey)

HStore(h) ==
    /\ pc[h] = "store"
    /\ \E t2 \in Later(now) : \E oldestKey \in OldestKeys(data, now) :
          /\ data' = HandlerSet(data, maxSize, hloc[h], now, t2, oldestKey)
          /\ now' = t2
          /\ stored' = [stored EXCEPT ![hloc[h].cacheKey] = t2]
    /\ did' = [did EXCEPT ![h] = Tally(@, metrics, metrics, 1, 0)]
    /\ pc' = [pc EXCEPT ![h] = "request"]
    /\ UNCHANGED <<last, maxSize, limiterVars, metrics, hreq, hloc, received>>

\* g.metrics.RecordRequest(); encode response
HRecordRequest(h) ==
    LET m2 == RecordRequest(metrics)
    IN  /\ pc[h] = "request"
        /\ metrics' = m2
        /\ did' = [did EXCEPT ![h] =
                      Responded(Tally(@, metrics, m2, 0, 0), "ok", 200, hloc[h].response)]
        /\ pc' = [pc EXCEPT ![h] = "done"]
        /\ UNCHANGED <<now, last, cacheVars, limiterVars, hreq, hloc, stored,
                       received>>

\* g.metrics.RecordError(); return
HRecordError(h) ==
    LET m2 == RecordError(metrics)
    IN  /\ pc[h] = "error"
        /\ metrics' = m2
        /\ did' = [did EXCEPT ![h] = Tally(@, metrics, m2, 0, 0)]
        /\ pc' = [pc EXCEPT ![h] = "done"]
        /\ UNCHANGED <<now, last, cacheVars, limiterVars, hreq, hloc, stored,
                       received>>

\* NewGateway; keys are the cache keys the history variable stored follows.
NewGateway(keys) ==
    /\ now = 0 /\ last = NoCall
    /\ maxSize = GatewayCacheSize
    /\ data = <<>>
    /\ limit = GatewayLimit
    /\ window = GatewayWindow
    /\ requests = <<>>
    /\ admitted = NoneAdmitted
    /\ blocked = [k \in ClientKeys |-> -1]
    /\ AllowIdle
    /\ metrics = [totalRequests |-> 0, cacheHits |-> 0, cacheMisses |-> 0, errors |-> 0]
    /\ pc = [h \in Handlers |-> "idle"]
    /\ hreq = [h \in Handlers |-> NoRequest]
    /\ hloc = [h \in Handlers |-> NoLocals]
    /\ did = [h \in Handlers |-> NothingDone]
    /\ stored = [k \in keys |-> -1]
    /\ received = 0

Init == NewGateway(GatewayKeys)

\* A component call runs under the component's mutex from entry to return;
\* here each is one step, so that no mutex is ever seen held.
Call(A) == A /\ UNCHANGED allowVars

Next ==
    \/ Tick
    \/ \E h \in Handlers :
          \/ Call(Receive(h)) \/ Call(HAllow(h)) \/ Call(HLookup(h))
          \/ Call(HRecordHit(h)) \/ Call(HRecordMiss(h)) \/ Call(HDispatch(h))
          \/ Call(HStore(h)) \/ Call(HRecordRequest(h)) \/ Call(HRecordError(h))

Spec == Init /\ [][Next]_vars

-----------------------------------------------------------------------------
(* The gateway receiving requests whose model and prompt contain the colon *)
(* that the cache key uses as its separator.                               *)

KeyModels == {"m", "m:x"}
KeyPrompts == {"y", "x:y"}

KeyRequests ==
    {[ok |-> TRUE, Prompt |-> p, Model |-> m, Provider |-> OpenAI] :
        <<m, p>> \in (KeyModels \X KeyPrompts) \ {<<"m:x", "x:y">>}}

InitKeys == NewGateway({CacheKey(r) : r \in KeyRequests})

NextKeys ==
    \/ Tick
    \/ \E h \in Handlers :
          \/ Call(ReceiveFrom(h, KeyRequests)) \/ Call(HAllow(h)) \/ Call(HLookup(h))
          \/ Call(HRecordHit(h)) \/ Call(HRecordMiss(h)) \/ Call(HDispatch(h))
          \/ Call(HStore(h)) \/ Call(HRecordRequest(h)) \/ Call(HRecordError(h))

SpecKeys == InitKeys /\ [][NextKeys]_vars

-----------------------------------------------------------------------------
(* The gateway with its mutexes. Each component method locks its           *)
(* component's mutex on entry and unlocks it, deferred, on return: a       *)
(* handler takes one step to get the mutex and one to run the method and   *)
(* release it. HandleMetrics runs beside the request handlers; the        *)
(* response it writes is not kept. The clock advances between requests,    *)
(* when no handler is at work, and between the two readings of a Set: the  *)
(* mutexes do not depend on it.                                            *)

Mutexes == {"rl", "cache", "metrics"}

\* Mutant of CanRLock: a reader does not wait for the writer.
CanRLockUnguarded(mu) == TRUE

\* mu.RLock() returns only while no writer holds the mutex.
CanRLock(mu) == mu.writers = {}

\* mu.Lock() returns only when neither a writer nor a reader holds it.
CanWLock(mu) == mu.writers = {} /\ mu.readers = {}

\* Mutant of Needs: one lock, the cache's, guards all three components.
NeedsGlobalLock(h) ==
    IF \/ pc[h] \in {"allow", "store", "hit", "miss", "request", "error"}
       \/ pc[h] = "lookup" /\ hreq[h].body.ok
    THEN {"cache"}
    ELSE {}

\* The mutex the handler's next call takes: rl.mu in Allow, c.mu in Get
\* (which a body that does not decode never reaches) and in Set, m.mu in
\* the Record methods; none to receive a request or to dispatch it.
Needs(h) ==
    CASE pc[h] = "allow" -> {"rl"}
      [] pc[h] = "lookup" /\ hreq[h].body.ok -> {"cache"}
      [] pc[h] = "store" -> {"cache"}
      [] pc[h] \in {"hit", "miss", "request", "error"} -> {"metrics"}
      [] OTHER -> {}

\* Get takes the read lock, every other method the write lock.
ReadOnly(h) == pc[h] = "lookup"

\* The mutexes a goroutine holds.
Held(h) ==
    {m \in Mutexes :
        \/ m = "rl" /\ rlMu = h
        \/ m = "cache" /\ h \in cMu.writers \cup cMu.readers
        \/ m = "metrics" /\ h \in mMu.writers \cup mMu.readers}

RWLock(mu, h, readOnly) ==
    IF readOnly THEN [mu EXCEPT !.readers = @ \cup {h}]
    ELSE [mu EXCEPT !.writers = @ \cup {h}]

RWUnlock(mu, h) == [writers |-> mu.writers \ {h}, readers |-> mu.readers \ {h}]

\* The Lock or RLock at the entry of the method the handler calls next.
LLock(h) ==
    /\ Held(h) = {}
    /\ \E m \in Needs(h) :
          CASE m = "rl" ->
                  /\ CanLock(rlMu)
                  /\ rlMu' = h
                  /\ UNCHANGED <<cMu, mMu>>
            [] m = "cache" ->
                  /\ IF ReadOnly(h) THEN CanRLock(cMu) ELSE CanWLock(cMu)
                  /\ cMu' = RWLock(cMu, h, ReadOnly(h))
                  /\ UNCHANGED <<rlMu, mMu>>
            [] m = "metrics" ->
                  /\ CanWLock(mMu)
                  /\ mMu' = RWLock(mMu, h, FALSE)
                  /\ UNCHANGED <<rlMu, cMu>>
    /\ UNCHANGED <<now, last, cacheVars, limiterVars, apc, aloc, gatewayVars>>

\* Mutant of Release: the method returns with its mutex still locked.
ReleaseForgotten(h) == UNCHANGED <<rlMu, cMu, mMu, apc, aloc>>

\* The deferred Unlock or RUnlock.
Release(h) ==
    /\ rlMu' = IF rlMu = h THEN NoOne ELSE rlMu
    /\ cMu' = RWUnlock(cMu, h)
    /\ mMu' = RWUnlock(mMu, h)
    /\ UNCHANGED <<apc, aloc>>

\* The handler's step A, taken with the mutex of its method held and
\* followed by the release of it.
Locked(h, A) == Held(h) = Needs(h) /\ A /\ Release(h)

\* The goroutine that serves /api/metrics.
MetricsReader == NumHandlers + 1

\* g.metrics.mu.RLock()
MRLock ==
    /\ MetricsReader \notin mMu.readers
    /\ CanRLock(mMu)
    /\ mMu' = RWLock(mMu, MetricsReader, TRUE)
    /\ UNCHANGED <<now, last, cacheVars, limiterVars, rlMu, apc, aloc, cMu, gatewayVars>>

\* The counters are read and encoded; defer g.metrics.mu.RUnlock()
MRUnlock ==
    /\ MetricsReader \in mMu.readers
    /\ mMu' = RWUnlock(mMu, MetricsReader)
    /\ UNCHANGED <<now, last, cacheVars, limiterVars, rlMu, apc, aloc, cMu, gatewayVars>>

Elapse == (\A h \in Handlers : pc[h] \in {"idle", "done"}) /\ Tick

NextLocks ==
    \/ Elapse
    \/ MRLock \/ MRUnlock
    \/ \E h \in Handlers :
          \/ LLock(h)
          \/ Locked(h, Receive(h)) \/ Locked(h, HAllow(h)) \/ Locked(h, HLookup(h))
          \/ Locked(h, HRecordHit(h)) \/ Locked(h, HRecordMiss(h))
          \/ Locked(h, HDispatch(h)) \/ Locked(h, HStore(h))
          \/ Locked(h, HRecordRequest(h)) \/ Locked(h, HRecordError(h))

SpecLocks == Init /\ [][NextLocks]_vars

\* The step of HandleLLMRequest the handler is at, the provider call's
\* return included; the arrival of a request is not one of them.
HandlerStep(h) ==
    \/ Locked(h, HAllow(h)) \/ Locked(h, HLookup(h))
    \/ Locked(h, HRecordHit(h)) \/ Locked(h, HRecordMiss(h))
    \/ Locked(h, HDispatch(h)) \/ Locked(h, HStore(h))
    \/ Locked(h, HRecordRequest(h)) \/ Locked(h, HRecordError(h))

\* The scheduler runs every goroutine that can run, and every provider call
\* returns. A goroutine that waits in Lock or RLock gets the mutex: a
\* sync.Mutex hands itself to a waiter that has waited long (starvation
\* mode), and a sync.RWMutex holds new readers back while a writer waits and
\* lets the waiting readers in when the writer unlocks. Requests, to
\* /api/llm or to /api/metrics, arrive or not.
FairScheduling ==
    /\ \A h \in Handlers : SF_vars(LLock(h)) /\ WF_vars(HandlerStep(h))
    /\ WF_vars(MRUnlock)

\* The goroutines alone: the clock is read in Set and nowhere waited for.
NextLive ==
    \/ MRLock \/ MRUnlock
    \/ \E h \in Handlers :
          LLock(h) \/ Locked(h, Receive(h)) \/ HandlerStep(h)

SpecLive == Init /\ [][NextLive]_vars /\ FairScheduling

-----------------------------------------------------------------------------
(* The gateway with requests that are cancelled while the provider call is *)
(* awaited: the server cancels r.Context() when the client's connection    *)
(* closes or the request times out. The handler passes the context to      *)
(* processLLMRequest and on to the provider functions, none of which reads  *)
(* it.                                                                     *)

Cancel(h) ==
    /\ pc[h] = "dispatch"
    /\ ~hreq[h].cancelled
    /\ hreq' = [hreq EXCEPT ![h].cancelled = TRUE]
    /\ UNCHANGED <<now, last, cacheVars, limiterVars, allowVars, metrics, pc, hloc, did,
                   stored, received>>

NextCancel == Next \/ \E h \in Handlers : Cancel(h)

SpecCancel == Init /\ [][NextCancel]_vars

-----------------------------------------------------------------------------
(* Claims about the cache, checked under SpecCache *)

Fresh(d, key, t) == key \in DOMAIN d /\ t - d[key].Timestamp <= d[key].TTL

IsOldest(d, k) == \A j \in DOMAIN d : d[k].Timestamp <= d[j].Timestamp

\* C1: the number of stored entries never exceeds maxSize, whatever the
\* sequence of Set and Get calls and whatever the clock readings.
C1_SizeWithinCapacity == Cardinality(DOMAIN data) <= maxSize

\* C2: the store changes only in a Set; a Set never removes an entry while an
\* older one remains, it removes at most one entry, and on a full store that
\* holds an entry older than the current clock reading an entry with the
\* oldest timestamp is evicted (it is gone afterwards unless it is the very
\* key being set, which is then stored anew).
C2_EvictsOldest ==
    [][data' # data =>
         LET gone == DOMAIN data \ DOMAIN data'
             key == last'.key
         IN  /\ last'.op = "Set"
             /\ \A k \in gone : IsOldest(data, k)
             /\ Cardinality(gone) <= 1
             /\ (CacheFull(data, maxSize)
                     /\ \E k \in DOMAIN data : data[k].Timestamp < now)
                  => \E k \in DOMAIN data :
                         /\ IsOldest(data, k)
                         /\ k \in gone \/ k = key
             /\ key \in DOMAIN data'
             /\ data'[key].Timestamp = now']_vars

\* C2 witness: capacity 1, X stored first, Y stored at a later clock reading:
\* X was evicted and only Y is left.
C2_Witness ==
    /\ maxSize = 1
    /\ last.op = "Set" /\ last.key = "Y" /\ last.evicted = {"X"}
    /\ DOMAIN data = {"Y"}
    /\ CacheGet(data, "X", now).found = FALSE
    /\ CacheGet(data, "Y", now) = [response |-> data["Y"].Response, found |-> TRUE]

\* C3: Get finds a key exactly when it is present and its age is at most
\* its TTL, returns the stored response then, and never changes the store:
\* an expired entry stays and keeps counting toward capacity.
C3_LazyExpiry ==
    [][\A key \in CacheKeys :
         DoGet(key) =>
            /\ last'.found <=> Fresh(data, key, now)
            /\ last'.found => last'.response = data[key].Response
            /\ ~last'.found => last'.response = ZeroResponse
            /\ data' = data]_vars

\* C3 witness: a Get has just missed on a key whose expired entry is still
\* stored, in a store that is full because of it.
C3_Witness ==
    /\ last.op = "Get" /\ ~last.found
    /\ last.key \in DOMAIN data
    /\ now - data[last.key].Timestamp > data[last.key].TTL
    /\ CacheFull(data, maxSize)

-----------------------------------------------------------------------------
(* Claims about the rate limiter, checked under SpecLimiter *)

\* C4 as stated: in any interval of duration W, here the closed interval
\* [t - W, t], at most N calls of a key are admitted.
C4_AnyIntervalOfDurationW ==
    \A key \in ClientKeys : \A t \in 0 .. MaxTime :
        AdmittedIn(admitted[key], t - window, t) <= limit

C4_WindowBound ==
    \A key \in ClientKeys : \A t \in 0 .. MaxTime :
        AdmittedIn(admitted[key], t - window + 1, t) <= limit

\* C4 amended: in any half-open interval (t - W, t] at most N calls of a key
\* are admitted, and a call is rejected exactly when N admitted calls of its
\* key already lie in (now - W, now]; a call made exactly W after an admitted
\* one is outside that call's window.
C4_SlidingWindow ==
    /\ []C4_WindowBound
    /\ [][\A key \in ClientKeys :
            DoAllow(key) =>
                (last'.ok <=> AdmittedIn(admitted[key], now - window + 1, now) < limit)]_vars

\* C4 witness: the call after the N-th admitted one in the window has just
\* been rejected.
C4_Witness ==
    /\ last.op = "Allow" /\ ~last.ok
    /\ limit = 2
    /\ AdmittedIn(admitted[last.key], now - window + 1, now) = limit

\* C5: once a key has been rejected with N admitted timestamps in its window,
\* the earliest of them being e, any call at or after e + W is admitted,
\* however many calls were rejected in between.
C5_ReadmittedAfterWindow ==
    [][\A key \in ClientKeys :
         (DoAllow(key) /\ blocked[key] >= 0 /\ now >= blocked[key] + window)
            => last'.ok]_vars

\* C5 witness: limit 2, window 2; calls at 0 and 1 admitted, a third one
\* rejected, and the call made when the window has elapsed past the first
\* one is admitted.
C5_Witness ==
    /\ limit = 2 /\ window = 2
    /\ last.op = "Allow" /\ last.ok /\ last.blockedBefore = 0
    /\ now = 2
    /\ admitted[last.key] = [u \in 0 .. MaxTime |-> IF u <= 2 THEN 1 ELSE 0]

-----------------------------------------------------------------------------
(* Claim about concurrent Allow calls, checked under SpecAllow *)

\* The free slots of a key at clock reading t, before any of the callers ran.
SlotsBefore(key, t) ==
    limit - Len(ValidRequests(RequestsOf(InitialRequests(limit), key), t - window))

\* The callers that have called Allow for a key.
CallersOf(key) == {c \in Callers : apc[c] # "start" /\ aloc[c].key = key}

\* Two or more callers have called Allow for the key and all have returned;
\* each read the clock while exactly one slot remained, and their clock
\* readings are less than the window apart.
RacedForOneSlot(key) ==
    /\ Cardinality(CallersOf(key)) >= 2
    /\ \A c \in CallersOf(key) : apc[c] = "done" /\ SlotsBefore(key, aloc[c].now) = 1
    /\ \A c, d \in CallersOf(key) : aloc[c].now - aloc[d].now < window

\* C6: when concurrent Allow calls of one key race for the one remaining slot,
\* exactly one of them returns true and every other one returns false, under
\* every interleaving.
C6_ExactlyOneAdmitted ==
    \A key \in ClientKeys :
        RacedForOneSlot(key) => Cardinality({c \in CallersOf(key) : aloc[c].ok}) = 1

\* C6 witness: two callers of key B raced for the last of two slots at one
\* clock reading; both have returned.
C6_Witness ==
    /\ limit = 2
    /\ RacedForOneSlot("B")
    /\ CallersOf("B") = {1, 2}
    /\ aloc[1].now = aloc[2].now
    /\ aloc[2].ok /\ ~aloc[1].ok

-----------------------------------------------------------------------------
(* Claims about the request handler, checked under Spec *)

StoreStep(h) == pc[h] = "store" /\ pc'[h] = "request"

LookupStep(h) == pc[h] = "lookup" /\ pc'[h] \in {"hit", "miss"}

\* The key was stored by a handler and the TTL has not elapsed since.
StoredWithinTTL(key) == stored[key] >= 0 /\ now - stored[key] <= CacheTTL

\* C7 as stated: once a miss with a successful dispatch has stored a key, a
\* later lookup of the same key within the TTL is served from the cache,
\* whatever was handled in between.
C7_ServedFromCacheWithinTTL ==
    [][\A h \in Handlers :
         (LookupStep(h) /\ StoredWithinTTL(CacheKey(hreq[h].body)))
            => pc'[h] = "hit"]_vars

\* C7 amended: the Set of a request that missed and was dispatched stores its
\* response under the key it looked up, stamped with the clock reading and
\* the fixed TTL, after the miss was counted and before any response is
\* written; an entry leaves the store only when a Set on a full store evicts
\* it; and a lookup of the same key within the TTL hits and returns the
\* stored response provided the entry has not been evicted in between.
C7_StoredThenServedUnlessEvicted ==
    /\ [][\A h \in Handlers :
            /\ StoreStep(h) =>
                  LET key == CacheKey(hreq[h].body)
                  IN  /\ hloc[h].cacheKey = key
                      /\ key \in DOMAIN data'
                      /\ data'[key] = [Response |-> hloc[h].response,
                                       Timestamp |-> now', TTL |-> CacheTTL]
                      /\ did[h].misses = 1 /\ did[h].dispatches = 1
                      /\ did[h].status = 0
            /\ LookupStep(h) =>
                  LET key == CacheKey(hreq[h].body)
                  IN  (StoredWithinTTL(key) /\ key \in DOMAIN data)
                        => /\ pc'[h] = "hit"
                           /\ hloc'[h].cached = data[key].Response]_vars
    /\ [][(DOMAIN data \ DOMAIN data') # {} =>
            /\ CacheFull(data, maxSize)
            /\ \E h \in Handlers : StoreStep(h)]_vars
    /\ [](\A key \in DOMAIN data : stored[key] = data[key].Timestamp)

\* C7 witness: a key was stored, a request for an unsupported provider was
\* handled in between, and the third request was served from the cache.
C7_Witness ==
    /\ received = 3
    /\ metrics = [totalRequests |-> 1, cacheHits |-> 1, cacheMisses |-> 2, errors |-> 1]
    /\ \E h \in Handlers :
          /\ pc[h] = "done" /\ did[h].outcome = "hit"
          /\ StoredWithinTTL(CacheKey(hreq[h].body))
          /\ did[h].sent.Cached

\* C8: a request served from the cache has counted one hit and nothing else:
\* it made no dispatch and no Set, and left the miss, error and total
\* counters alone.
C8_HitCountsOnlyAHit ==
    \A h \in Handlers :
        (pc[h] = "done" /\ did[h].outcome = "hit") =>
            /\ did[h].hits = 1
            /\ did[h].misses = 0 /\ did[h].errors = 0 /\ did[h].totals = 0
            /\ did[h].sets = 0 /\ did[h].dispatches = 0

\* C8 witness: a request has been served from the cache while the store holds
\* the entry it was served from.
C8_Witness ==
    \E h \in Handlers :
        /\ pc[h] = "done" /\ did[h].outcome = "hit" /\ did[h].hits = 1
        /\ hloc[h].cacheKey \in DOMAIN data
        /\ metrics.cacheHits = 1

ErrorOutcomes == {"rate_limited", "invalid_request", "provider_error"}

\* C9: the store changes only in the Set of a handler that missed, whose
\* dispatch returned no error and that has written no response yet; a
\* request that ended in an error has made no Set.
C9_CacheWrittenOnlyOnMissOk ==
    /\ [](\A h \in Handlers :
            (pc[h] = "done" /\ did[h].outcome \in ErrorOutcomes) => did[h].sets = 0)
    /\ [][data' # data =>
            \E h \in Handlers :
                /\ StoreStep(h)
                /\ did[h].misses = 1 /\ did[h].dispatches = 1
                /\ hloc[h].err = "" /\ did[h].outcome = ""]_vars

\* C9 witness: a request for an unsupported provider and a malformed one have
\* both ended in an error and the store is still empty.
C9_Witness ==
    /\ \E h \in Handlers :
          pc[h] = "done" /\ did[h].outcome = "provider_error" /\ did[h].dispatches = 1
    /\ \E h \in Handlers : pc[h] = "done" /\ did[h].outcome = "invalid_request"
    /\ data = <<>>

\* C10: a request that ended rate-limited (429), malformed (400) or with a
\* dispatch error (500) has counted exactly one error; a request that ended
\* with a response (a hit, or a miss with a successful dispatch) has counted
\* none.
C10_ErrorCountedOnce ==
    \A h \in Handlers :
        pc[h] = "done" =>
            \/ /\ did[h].outcome = "rate_limited" /\ did[h].status = 429
               /\ did[h].errors = 1
            \/ /\ did[h].outcome = "invalid_request" /\ did[h].status = 400
               /\ did[h].errors = 1
            \/ /\ did[h].outcome = "provider_error" /\ did[h].status = 500
               /\ did[h].errors = 1
            \/ /\ did[h].outcome \in {"hit", "ok"} /\ did[h].status = 200
               /\ did[h].errors = 0

\* C10 witness: one request has ended rate-limited and another with a
\* response, and the error counter stands at one.
C10_Witness ==
    /\ \E h \in Handlers : pc[h] = "done" /\ did[h].outcome = "rate_limited"
    /\ \E h \in Handlers : pc[h] = "done" /\ did[h].outcome = "ok"
    /\ metrics.errors = 1

-----------------------------------------------------------------------------
(* Claim about cancelled requests, checked under SpecCancel *)

\* C11: a request that was cancelled while its handler awaited the provider
\* call makes no Set, and when its handler has returned it has written no
\* response and has counted one error.
C11_CancelledRequestAbandoned ==
    \A h \in Handlers :
        hreq[h].cancelled =>
            /\ did[h].sets = 0
            /\ pc[h] = "done" => (did[h].status # 200 /\ did[h].errors = 1)

-----------------------------------------------------------------------------
(* Claim about the dispatcher, checked under SpecDispatch *)

SupportedProviders == {"openai", "anthropic", "google", "deepseek"}

\* C12: processLLMRequest, given a request whose provider is not one of
\* openai, anthropic, google, deepseek, returns the error "unsupported
\* provider: <provider>" with a response whose every field is zero, and has
\* called no provider function; given one of the four it returns no error
\* and has called that provider's function only.
C12_UnsupportedProviderFails ==
    last.op = "processLLMRequest" =>
        IF last.req.Provider \notin SupportedProviders
        THEN /\ last.err = "unsupported provider: " \o last.req.Provider
             /\ last.response.Provider = "" /\ last.response.Model = ""
             /\ last.response.Response = "" /\ last.response.TokensUsed = 0
             /\ last.response.ResponseTime = 0 /\ last.response.Cached = FALSE
             /\ last.called = <<>>
        ELSE /\ last.err = ""
             /\ Len(last.called) = 1
             /\ last.response.Provider = last.req.Provider

\* C12 witness: a request that names the provider "OpenAI", which differs
\* from the supported "openai" in case only, was dispatched and failed.
C12_Witness ==
    /\ last.op = "processLLMRequest"
    /\ last.req.Provider = "OpenAI" /\ last.req.Model = "m"
    /\ last.req.Prompt = "tell me more"
    /\ last.err = "unsupported provider: OpenAI"
    /\ last.response = ZeroResponse

HitStep(h) == pc[h] = "hit" /\ pc'[h] = "done"

\* The payload of a response: everything but the cached flag.
Payload(r) == <<r.Provider, r.Model, r.Response, r.TokensUsed, r.ResponseTime>>

\* C13: a lookup of a key whose stored entry is within its TTL hits and takes
\* the stored response; the request is then answered with cached = true and
\* the payload (provider, model, text, tokens used, response time) of the
\* stored response; neither the lookup nor the answer changes the store, so
\* every further read of the entry returns the same.
C13_IdempotentRead ==
    [][\A h \in Handlers :
         /\ LookupStep(h) =>
               LET key == CacheKey(hreq[h].body)
               IN  /\ data' = data
                   /\ Fresh(data, key, now) =>
                         /\ pc'[h] = "hit"
                         /\ Payload(hloc'[h].cached) = Payload(data[key].Response)
         /\ HitStep(h) =>
               /\ data' = data
               /\ did'[h].outcome = "hit" /\ did'[h].status = 200
               /\ did'[h].sent.Cached = TRUE
               /\ Payload(did'[h].sent) = Payload(hloc[h].cached)]_vars

\* C13 witness: a key was stored once and then read twice; both handlers
\* answered with cached = true and the payload that is still stored.
C13_Witness ==
    /\ metrics.cacheHits = 2 /\ metrics.cacheMisses = 1
    /\ \A h \in Handlers :
          /\ pc[h] = "done" /\ did[h].outcome = "hit"
          /\ hloc[h].cacheKey \in DOMAIN data
          /\ did[h].sent.Cached
          /\ Payload(did[h].sent) = Payload(data[hloc[h].cacheKey].Response)
    /\ hloc[1].cacheKey = hloc[2].cacheKey

\* C14: every stored entry has its cached flag false; the flag is true on
\* the response written for a hit and on no other response, and the step
\* that sets it leaves the store as it is.
C14_StoredFlagFalse ==
    /\ [](\A k \in DOMAIN data : data[k].Response.Cached = FALSE)
    /\ [](\A h \in Handlers :
            pc[h] = "done" => (did[h].sent.Cached <=> did[h].outcome = "hit"))
    /\ [][\A h \in Handlers :
            HitStep(h) => (did'[h].sent.Cached /\ ~hloc'[h].cached.Cached /\ data' = data)]_vars

\* C14 witness: a request has been answered with cached = true from an entry
\* that is still stored, with its flag false.
C14_Witness ==
    \E h \in Handlers :
        /\ pc[h] = "done" /\ did[h].outcome = "hit" /\ did[h].sent.Cached
        /\ hloc[h].cacheKey \in DOMAIN data
        /\ data[hloc[h].cacheKey].Response.Cached = FALSE
        /\ data[hloc[h].cacheKey].Response = hloc[h].cached

-----------------------------------------------------------------------------
(* Claim about the metrics endpoint, checked under SpecMetrics *)

\* C15: HandleMetrics reports the counters as they are; the hit rate it
\* computes is 0 when hits + misses = 0 and hits / (hits + misses) * 100
\* otherwise, computed with a divisor that is never zero, and the string it
\* reports is that rate to two decimals followed by a percent sign.
C15_CacheHitRate ==
    last.op = "Metrics" =>
        LET hits == last.cache_hits
            total == last.cache_hits + last.cache_misses
            rate == last.cacheHitRate
        IN  /\ rate.den # 0
            /\ total = 0 => (rate.num = 0 /\ last.cache_hit_rate = "0.00%")
            /\ total # 0 =>
                  /\ rate.num * total = hits * 100 * rate.den
                  /\ \E n \in (hits * 10000) \div total .. (hits * 10000) \div total + 1 :
                        /\ 2 * (n * total - hits * 10000) <= total
                        /\ 2 * (hits * 10000 - n * total) <= total
                        /\ last.cache_hit_rate =
                              Decimal(n \div 100) \o "." \o Digit((n \div 10) % 10)
                                 \o Digit(n % 10) \o "%"

\* C15 witness: one hit and two misses are reported as 33.33%, while the
\* other counters stand at other values.
C15_Witness ==
    /\ last.op = "Metrics"
    /\ last.cache_hits = 1 /\ last.cache_misses = 2
    /\ last.cache_hit_rate = "33.33%"
    /\ last.total_requests = 3 /\ last.errors = 1

-----------------------------------------------------------------------------
(* Further claims about the rate limiter, checked under SpecLimiter *)

\* The admitted calls of a key that lie in the window of a call at now.
RetainedCount(key) == AdmittedIn(admitted[key], now - window + 1, now)

\* C16: an Allow call made when the admitted calls of its key in the window
\* number limit or more returns false and leaves the whole map as it is; a
\* call that returns true leaves the key with the timestamps retained from
\* its window, in their order, followed by one new timestamp equal to now,
\* and leaves every other key as it is.
C16_AllowFrameEffect ==
    [][\A key \in ClientKeys :
         DoAllow(key) =>
            LET old == RequestsOf(requests, key)
                n == RetainedCount(key)
            IN  /\ n >= limit => ~last'.ok
                /\ ~last'.ok => requests' = requests
                /\ last'.ok =>
                      /\ DOMAIN requests' = DOMAIN requests \cup {key}
                      /\ \A j \in DOMAIN requests \ {key} : requests'[j] = requests[j]
                      /\ Len(requests'[key]) = n + 1
                      /\ requests'[key][n + 1] = now
                      /\ \A i \in 1 .. n : requests'[key][i] = old[Len(old) - n + i]]_vars

\* C16 witness: limit 2, window 2, calls of a key at 0 and 1; the call at 2
\* was admitted, dropped the timestamp 0 and appended 2.
C16_Witness ==
    /\ limit = 2 /\ window = 2 /\ now = 2
    /\ last.op = "Allow" /\ last.ok
    /\ requests[last.key] = <<1, 2>>
    /\ admitted[last.key][0] = 1

\* The timestamps stored for a key that are at or before t - window.
Stale(key, t) ==
    {i \in 1 .. Len(RequestsOf(requests, key)) : requests[key][i] <= t - window}

\* C17 as stated: in every reachable state every stored timestamp of every
\* key is strictly later than now - window.
C17_WindowHoldsOnlyRecent == \A key \in ClientKeys : Stale(key, now) = {}

\* C17 amended: when an Allow call for a key returns, admitted or rejected,
\* every timestamp stored for that key is strictly later than the call's
\* now - window; the timestamps of a key are left as they are, stale ones
\* included, by the advance of time and by calls for other keys.
C17_RecentAfterEachCall ==
    [][/\ \A key \in ClientKeys :
            DoAllow(key) =>
                /\ \A i \in 1 .. Len(RequestsOf(requests', key)) :
                       requests'[key][i] > now - window
                /\ \A j \in ClientKeys \ {key} :
                       RequestsOf(requests', j) = RequestsOf(requests, j)
       /\ now' # now => requests' = requests]_vars

\* C17 witness: a call has just been rejected with only timestamps of its
\* window stored for its key, while the other key still holds a timestamp
\* that has left the window.
C17_Witness ==
    /\ last.op = "Allow" /\ ~last.ok /\ limit >= 1
    /\ now >= window
    /\ Len(RequestsOf(requests, last.key)) = limit
    /\ Stale(last.key, now) = {}
    /\ \E j \in ClientKeys \ {last.key} : Stale(j, now) # {}

-----------------------------------------------------------------------------
(* Claim about the counters, checked under Spec *)

\* C18: in every reachable state cache_hits + cache_misses is at most the
\* total-requests counter.
C18_HitsAndMissesWithinTotal ==
    metrics.cacheHits + metrics.cacheMisses <= metrics.totalRequests

-----------------------------------------------------------------------------
(* Claims about the mutexes, checked under SpecLocks *)

\* C19: at most one Set is inside c.mu at a time, and none while a Get is
\* inside; the store is read by Get and written by Set (the eviction scan
\* included) only from inside, a Set being then alone; several Gets may be
\* inside together.
C19_SetExcludesSetAndGet ==
    /\ [](/\ Cardinality(cMu.writers) <= 1
          /\ cMu.writers # {} => cMu.readers = {})
    /\ [][\A h \in Handlers :
            /\ StoreStep(h) => (cMu.writers = {h} /\ cMu.readers = {})
            /\ LookupStep(h) => (h \in cMu.readers /\ cMu.writers = {})
            /\ (h \in cMu.writers /\ h \notin cMu'.writers) => StoreStep(h)
            /\ (h \in cMu.readers /\ h \notin cMu'.readers) => LookupStep(h)]_vars

\* C19 witness: two handlers are inside Get together, on a store that holds
\* an entry, while none is inside Set.
C19_Witness ==
    /\ cMu.readers = {1, 2} /\ cMu.writers = {}
    /\ pc[1] = "lookup" /\ pc[2] = "lookup"
    /\ data # <<>>

Goroutines == Handlers \cup {MetricsReader}

\* C20: no goroutine holds two mutexes at once; the limiter's map changes
\* under rl.mu only, the store under c.mu only and the counters under m.mu
\* only; and while a Set is inside c.mu a handler that has called Allow can
\* take its next step, unless another handler is inside Allow, which can
\* then take its own.
C20_NoLockSpansComponents ==
    /\ [](\A g \in Goroutines : Cardinality(Held(g)) <= 1)
    /\ [](\A g \in Handlers :
            (pc[g] = "allow" /\ cMu.writers # {}) =>
                \/ ENABLED (LLock(g) \/ Locked(g, HAllow(g)))
                \/ /\ rlMu \in Handlers \ {g}
                   /\ ENABLED Locked(rlMu, HAllow(rlMu)))
    /\ [][/\ requests' # requests => \E h \in Handlers : Held(h) = {"rl"} /\ rlMu = h
          /\ data' # data => \E h \in Handlers : Held(h) = {"cache"} /\ cMu.writers = {h}
          /\ metrics' # metrics =>
                \E h \in Handlers : Held(h) = {"metrics"} /\ mMu.writers = {h}]_vars

\* C20 witness: one handler is inside Set on a full store, the other is
\* inside Allow, and HandleMetrics is reading the counters, all at once.
C20_Witness ==
    /\ \E h \in Handlers :
          /\ cMu.writers = {h} /\ pc[h] = "store"
          /\ CacheFull(data, maxSize)
          /\ rlMu \in Handlers \ {h} /\ pc[rlMu] = "allow"
    /\ MetricsReader \in mMu.readers

-----------------------------------------------------------------------------
(* Claim about the cache key, checked under SpecKeys *)

Triple(r) == <<r.Provider, r.Model, r.Prompt>>

\* C21: requests in hand whose (provider, model, prompt) differ have
\* different cache keys, and a request served from the cache is answered
\* with the provider, the model and the text generated for its own prompt.
C21_HitAnswersOwnTriple ==
    /\ \A h, g \in Handlers :
          (pc[h] = "done" /\ pc[g] = "done" /\ did[h].outcome = "hit"
              /\ did[g].outcome = "ok"
              /\ Triple(hreq[h].body) # Triple(hreq[g].body))
            => CacheKey(hreq[h].body) # CacheKey(hreq[g].body)
    /\ \A h \in Handlers :
          (pc[h] = "done" /\ did[h].outcome = "hit") =>
              /\ did[h].sent.Provider = hreq[h].body.Provider
              /\ did[h].sent.Model = hreq[h].body.Model
              /\ did[h].sent.Response =
                    processLLMRequest(hreq[h].body).response.Response

-----------------------------------------------------------------------------
(* Claim about the stored windows, checked under SpecLimiter *)

NonDecreasing(reqs) == \A i, j \in 1 .. Len(reqs) : i <= j => reqs[i] <= reqs[j]

\* C22: with limit >= 1, in every reachable state the timestamps stored for
\* a key number at most limit and are in non-decreasing order, and an Allow
\* call for one key leaves what is stored for every other key as it is.
C22_WindowsBoundedOrderedSeparate ==
    /\ [](limit >= 1 =>
            \A key \in DOMAIN requests :
                /\ Len(requests[key]) <= limit
                /\ NonDecreasing(requests[key]))
    /\ [][\A key \in ClientKeys :
             (limit >= 1 /\ DoAllow(key)) =>
                /\ DOMAIN requests' \subseteq DOMAIN requests \cup {key}
                /\ \A j \in DOMAIN requests \ {key} :
                       j \in DOMAIN requests' /\ requests'[j] = requests[j]]_vars

\* C22 witness: an admitted call has just filled its key's window with two
\* timestamps of different clock readings while the other key has a stored
\* window of its own.
C22_Witness ==
    /\ limit = 2 /\ last.op = "Allow" /\ last.ok
    /\ Len(RequestsOf(requests, last.key)) = limit
    /\ requests[last.key][1] < requests[last.key][2]
    /\ \E j \in DOMAIN requests \ {last.key} : Len(requests[j]) >= 1

-----------------------------------------------------------------------------
(* Claim about overwriting a stored key, checked under SpecCache *)

\* A Set of key finds it stored, in a store of exactly maxSize entries of
\* which one at least is older than the current clock reading.
OverwriteAtCapacity(key) ==
    /\ key \in DOMAIN data
    /\ Cardinality(DOMAIN data) = maxSize
    /\ \E k \in DOMAIN data : data[k].Timestamp < now

\* C23: a Set on a key already present, in a store of maxSize entries with
\* one older than the current time, still evicts an oldest entry before it
\* writes: when the key being set is not an oldest entry another key is
\* lost; whenever another key is lost it was an oldest one and the store
\* ends with maxSize - 1 entries; otherwise the key itself was the evicted
\* one and the size stays. In every case the key is present afterwards with
\* the new response, the timestamp of the second clock reading and the given
\* TTL, and the remaining entries are as they were.
C23_OverwriteStillEvicts ==
    [][\A key \in CacheKeys, response \in TestResponses, ttl \in 0 .. MaxTTL :
         (OverwriteAtCapacity(key) /\ DoSet(key, response, ttl)) =>
            LET gone == DOMAIN data \ DOMAIN data'
            IN  /\ ~IsOldest(data, key) => gone # {}
                /\ gone # {} =>
                      /\ \E k \in DOMAIN data \ {key} : gone = {k} /\ IsOldest(data, k)
                      /\ Cardinality(DOMAIN data') = maxSize - 1
                /\ gone = {} =>
                      /\ IsOldest(data, key)
                      /\ Cardinality(DOMAIN data') = maxSize
                /\ DOMAIN data' = (DOMAIN data \ gone) \cup {key}
                /\ data'[key] = [Response |-> response, Timestamp |-> now',
                                 TTL |-> ttl]
                /\ now' >= now
                /\ \A j \in DOMAIN data' \ {key} : data'[j] = data[j]]_vars

\* C23 witness: capacity 2 and a Set that lost another key and left its own
\* key alone in the store, which happens only when the key was stored
\* already (a Set of an absent key takes the place of the entry it evicts).
C23_Witness ==
    /\ maxSize = 2
    /\ last.op = "Set"
    /\ \E k \in CacheKeys \ {last.key} : last.evicted = {k}
    /\ DOMAIN data = {last.key}
    /\ data[last.key].Timestamp = now

-----------------------------------------------------------------------------
(* Claim about two requests racing for one cache key, checked under Spec *)

\* The handler has looked its key up, missed, and not responded yet.
InFlightMiss(h) == pc[h] \in {"miss", "dispatch", "store", "request"}

\* Two handlers are on the miss path for one cache key at the same time.
MissTogether(h, g) ==
    /\ h # g /\ InFlightMiss(h) /\ InFlightMiss(g)
    /\ hloc[h].cacheKey = hloc[g].cacheKey

\* C24: nothing makes a request wait for, or reuse, a request in flight for
\* the same cache key. A lookup made while another handler is on the miss
\* path for the same key, before anything was stored under the key, misses
\* too. Of two handlers on the miss path for one key each counts one miss
\* and no hit, dispatches to its provider without touching the store, and
\* (the provider being a supported one) calls Set once, after which the
\* store holds the key with that handler's response; when both have
\* responded they have counted two misses and no hit between them.
C24_RacingMissesBothStore ==
    /\ [](\A h, g \in Handlers :
            MissTogether(h, g) =>
                /\ did[h].hits = 0
                /\ did[h].misses = IF pc[h] = "miss" THEN 0 ELSE 1
                /\ did[h].dispatches = IF pc[h] \in {"store", "request"} THEN 1 ELSE 0
                /\ did[h].sets = IF pc[h] = "request" THEN 1 ELSE 0)
    /\ [](\A h, g \in Handlers :
            (h # g /\ pc[h] = "done" /\ pc[g] = "done"
                /\ did[h].outcome = "ok" /\ did[g].outcome = "ok"
                /\ hloc[h].cacheKey = hloc[g].cacheKey) =>
                /\ did[h].misses + did[g].misses = 2
                /\ did[h].hits + did[g].hits = 0
                /\ did[h].dispatches + did[g].dispatches = 2
                /\ did[h].sets + did[g].sets = 2
                /\ metrics.cacheMisses >= 2)
    /\ [][\A h, g \in Handlers :
            /\ (LookupStep(g) /\ h # g /\ hreq[g].body.ok
                    /\ pc[h] \in {"miss", "dispatch", "store"}
                    /\ hloc[h].cacheKey = CacheKey(hreq[g].body)
                    /\ stored[hloc[h].cacheKey] = -1)
                 => pc'[g] = "miss"
            /\ (MissTogether(h, g) /\ pc'[h] # pc[h]) =>
                  /\ pc[h] = "miss" =>
                        /\ pc'[h] = "dispatch" /\ data' = data
                        /\ metrics' = [metrics EXCEPT !.cacheMisses = @ + 1]
                  /\ pc[h] = "dispatch" =>
                        /\ data' = data /\ metrics' = metrics
                        /\ hreq[h].body.Provider \in SupportedProviders
                              => pc'[h] = "store"
                  /\ pc[h] = "store" =>
                        /\ pc'[h] = "request" /\ metrics' = metrics
                        /\ hloc[h].cacheKey \in DOMAIN data'
                        /\ data'[hloc[h].cacheKey].Response = hloc[h].response]_vars

\* C24 witness: the only two requests received had the same key and were
\* both answered by their provider at clock reading 0, where an entry stored
\* by the one would have been served to the other: they looked up before
\* either stored. Two misses, no hit, and the key is in the store.
C24_Witness ==
    /\ received = 2 /\ now = 0
    /\ \A h \in Handlers : pc[h] = "done" /\ did[h].outcome = "ok"
    /\ hloc[1].cacheKey = hloc[2].cacheKey
    /\ metrics.cacheMisses = 2 /\ metrics.cacheHits = 0
    /\ hloc[1].cacheKey \in DOMAIN data
    /\ Cardinality(DOMAIN data) = 1

-----------------------------------------------------------------------------
(* Claim about termination, checked under SpecLive *)

\* C25: under fair scheduling, with every provider call returning, every
\* request handler that has a request in hand eventually has responded and
\* every metrics snapshot ends; a goroutine holds no mutex but the one of
\* the method it is inside, and none between methods, while it awaits the
\* provider, or when it has responded.
C25_HandlersRespond ==
    /\ \A h \in Handlers : (pc[h] \notin {"idle", "done"}) ~> (pc[h] = "done")
    /\ (MetricsReader \in mMu.readers) ~> (MetricsReader \notin mMu.readers)
    /\ [](\A h \in Handlers :
            /\ Held(h) \subseteq Needs(h)
            /\ pc[h] = "done" => did[h].status # 0)
    /\ [](Held(MetricsReader) \subseteq {"metrics"})

\* C25 witness: one handler has responded while the other, about to record
\* in the metrics, waits for m.mu, which a metrics snapshot holds.
C25_Witness ==
    /\ pc[1] = "done" /\ did[1].status = 200
    /\ pc[2] \in {"hit", "miss", "request", "error"}
    /\ Held(2) = {}
    /\ MetricsReader \in mMu.readers
    /\ ~ENABLED LLock(2)

====
